---- MODULE Spec2Model ----
(***************************************************************************)
(* Model of rt::TcpConn (caladan/bindings/cc/net.h): the full-transfer     *)
(* loops ReadFull / WriteFull, the vectored ReadvFull / WritevFull with    *)
(* their single-segment, scratch-buffer and raw paths, and the scatter /   *)
(* gather helpers of namespace detail.                                     *)
(*                                                                         *)
(* A step of the model is one underlying transport call (Read, Write,      *)
(* Readv, Writev) of one task together with the code that runs until the   *)
(* task's next transport call: these calls are the points where a task     *)
(* blocks and another task runs.                                           *)
(*                                                                         *)
(* Pointers are pairs (seg, off): seg = 0 is the connection's scratch      *)
(* buffer buf_, seg = i > 0 is the caller's i-th buffer.                   *)
(***************************************************************************)
EXTENDS Integers, Sequences, FiniteSets, TLC

\* ------------------------------------------------------------ constants
\* net.h:282  constexpr static std::size_t kIOVCopyThresh = 128;
kIOVCopyThresh == 128

\* ---------------------------------------------------------------- bounds
\* Largest length of a small segment.
MaxSegLen == 2
\* Calls the task of the "series" harness issues, one after the other.
MaxCalls == 2
\* Times per call the transport's Write may report no progress (0).
MaxStall == 1
\* A transfer of rem bytes moves any part of them when rem <= 2 * MaxChunk,
\* and all but at most MaxChunk of them otherwise.
MaxChunk == 3

\* The instantiations of the template parameter Extent (and the values of
\* iovcnt) the harness uses.
Extents == {0, 1, 2, 3}

Tasks == {"t1", "t2"}
Conns == {1, 2}

\* Negative results of the transport (-ECONNRESET, -EPIPE).
Errs == {-104, -32}
\* Contents of storage nobody has written yet (buf_ is not initialised by
\* the constructor).
JunkBytes == {8, 9}

\* Segment lengths around the threshold.
BigLens == {kIOVCopyThresh - 1, kIOVCopyThresh + 1}

\* The lists of e lengths out of S.
ListsOf(S, e) == [1..e -> S]

SmallLists == UNION {ListsOf(0..MaxSegLen, e) : e \in Extents}
BigLists == {<<b>> \o tl : b \in BigLens,
                           tl \in ListsOf(0..MaxSegLen, 0) \cup ListsOf(1..MaxSegLen, 1)}
DuplexLists == {<<l, 1>> : l \in {1, MaxSegLen}}
SeriesLists == ListsOf({1, MaxSegLen}, 1) \cup ListsOf({0, MaxSegLen}, 2)
PairLists == ListsOf(0..MaxSegLen, 1)
\* One buffer the transport may fill or drain in any number of pieces.
LongLists == {<<2 * MaxChunk>>}

\* ------------------------------------------------------------- helpers
RECURSIVE SumLens(_)
SumLens(lens) == IF lens = << >> THEN 0 ELSE Head(lens) + SumLens(Tail(lens))

RECURSIVE Flatten(_)
Flatten(m) == IF m = << >> THEN << >> ELSE Head(m) \o Flatten(Tail(m))

Fill(len, b) == [j \in 1..len |-> b]

\* The bytes a writer's k-th call sends: position p (from 0) of the payload.
PayByte(k, p) == 1 + ((p + k) % 3)
\* The bytes the remote peer sends during a reader's k-th call.
EnvByte(k, p) == 4 + ((p + k) % 3)

\* struct iovec { void *iov_base; size_t iov_len; }
IoVec(seg, off, len) == [iov_base |-> [seg |-> seg, off |-> off], iov_len |-> len]
\* The caller's list over its own buffers 1..Len(lens).
IovOf(lens) == [i \in 1..Len(lens) |-> IoVec(i, 0, lens[i])]

\* std::accumulate(iov.begin(), iov.end(), 0, s + a.iov_len)
RECURSIVE TotalLen(_)
TotalLen(iov) == IF iov = << >> THEN 0 ELSE Head(iov).iov_len + TotalLen(Tail(iov))

\* The caller's buffers for a write (payload) and for a read (zeroed).
RECURSIVE PayMem(_, _, _)
PayMem(k, lens, p) ==
  IF lens = << >> THEN << >>
  ELSE <<[j \in 1..Head(lens) |-> PayByte(k, p + j - 1)]>>
         \o PayMem(k, Tail(lens), p + Head(lens))
BlankMem(lens) == [i \in 1..Len(lens) |-> Fill(lens[i], 0)]

\* Memory as one task sees it: the scratch buffer and its own buffers.
Load(b, m, ptr, len) ==
  [j \in 1..len |-> IF ptr.seg = 0 THEN b[ptr.off + j] ELSE m[ptr.seg][ptr.off + j]]
Patch(s, off, bytes) ==
  [x \in 1..Len(s) |->
     IF x > off /\ x <= off + Len(bytes) THEN bytes[x - off] ELSE s[x]]
StoreBuf(b, ptr, bytes) == IF ptr.seg = 0 THEN Patch(b, ptr.off, bytes) ELSE b
StoreMem(m, ptr, bytes) ==
  IF ptr.seg = 0 THEN m ELSE [m EXCEPT ![ptr.seg] = Patch(@, ptr.off, bytes)]
Advance(ptr, k) == [ptr EXCEPT !.off = @ + k]

\* A general_scatter_gather whose recursion does not advance the offset.
RECURSIVE general_scatter_gather_NoAdvance(_, _, _, _, _)
general_scatter_gather_NoAdvance(Scatter, b, m, offset, iov) ==
  IF iov = << >> THEN <<b, m>>
  ELSE LET iovec == Head(iov)
           here  == [seg |-> 0, off |-> offset]
           b1 == IF Scatter THEN b
                 ELSE StoreBuf(b, here, Load(b, m, iovec.iov_base, iovec.iov_len))
           m1 == IF Scatter
                 THEN StoreMem(m, iovec.iov_base, Load(b, m, here, iovec.iov_len))
                 ELSE m
       IN  general_scatter_gather_NoAdvance(Scatter, b1, m1, offset, Tail(iov))

\* detail::general_scatter_gather<Scatter, Extent>(buf, offset, iov): the
\* pair <<buf, caller memory>> after the copies, segment by segment.
RECURSIVE general_scatter_gather(_, _, _, _, _)
general_scatter_gather(Scatter, b, m, offset, iov) ==
  IF iov = << >> THEN <<b, m>>
  ELSE LET iovec == Head(iov)
           here  == [seg |-> 0, off |-> offset]
           b1 == IF Scatter THEN b
                 ELSE StoreBuf(b, here, Load(b, m, iovec.iov_base, iovec.iov_len))
           m1 == IF Scatter
                 THEN StoreMem(m, iovec.iov_base, Load(b, m, here, iovec.iov_len))
                 ELSE m
       IN  general_scatter_gather(Scatter, b1, m1, offset + iovec.iov_len, Tail(iov))

\* A scatter_to that copies in the direction of gather_from.
scatter_to_Gather(b, m, iov) == general_scatter_gather(FALSE, b, m, 0, iov)[2]

\* net.h:34-38
scatter_to(b, m, iov) == general_scatter_gather(TRUE, b, m, 0, iov)[2]
\* A gather_from instantiated with Scatter = true.
gather_from_Scatter(b, m, iov) == general_scatter_gather(TRUE, b, m, 0, iov)[1]

\* net.h:40-44
gather_from(b, m, iov) == general_scatter_gather(FALSE, b, m, 0, iov)[1]

\* ---------------------------------------------------------------- state
VARIABLES
  harness,   \* how the connection is driven (see Init)
  buf_,      \* buf_[c]: TcpConn::buf_ of connection c, kIOVCopyThresh bytes
  wire,      \* bytes written on connection 1 that its peer has not read
             \* (kept in the "loopback" and "series" harnesses)
  task,      \* task[t]: the call task t is in, its locals and its buffers
  aborted    \* the process stopped at a failed assertion

vars == <<harness, buf_, wire, task, aborted>>

ReadOps == {"ReadFull", "ReadvFull", "ReadvFullDyn"}
WriteOps == {"WriteFull", "WritevFull", "WritevFullDyn"}
IsWrite(op) == op \in WriteOps

Scratch == [seg |-> 0, off |-> 0]

\* A task that has not called anything yet.
Idle ==
  [pc |-> "idle", op |-> "none", calls |-> 0, iov |-> << >>, mem |-> << >>,
   path |-> "none", pos |-> Scratch, len |-> 0, n |-> 0, cur |-> << >>,
   ret |-> 0, io |-> FALSE, last |-> 0, stall |-> 0, moved |-> << >>]

\* The task's record when its k-th call, op over the segment lengths lens,
\* begins: the caller's segment list and buffers.
Fresh(op, k, lens) ==
  [Idle EXCEPT !.op = op, !.calls = k, !.iov = IovOf(lens),
               !.mem = IF IsWrite(op) THEN PayMem(k, lens, 0) ELSE BlankMem(lens)]

Returned(tk, r) == [tk EXCEPT !.pc = "done", !.ret = r, !.stall = 0]

\* What the record keeps of a transport call that returned ret: io, that
\* there was one, and last, the result when it moved nothing (1 otherwise).
Seen(tk, ret) == [tk EXCEPT !.io = TRUE, !.last = IF ret > 0 THEN 1 ELSE ret]

\* ------------------------------------------------------------ ReadFull
\* A ReadFull that reports the bytes it has when the stream ends.
ReadFullFail_Partial(n, ret) == IF ret = 0 THEN n ELSE ret

\* net.h:196  if (ret <= 0) return ret;
ReadFullFail(n, ret) == ret
\* net.h:199-200  assert(n == len); return n;
ReadFullDone(n, len) == n

\* What runs when ReadFull has returned r to its caller: the user, or
\* ReadvFull's scratch path (net.h:231-232: scatter_to, return ret).
AfterReadFull(tk, b, r) ==
  IF tk.path = "scratch"
  THEN Returned([tk EXCEPT !.mem = scatter_to(b, tk.mem, tk.iov)], r)
  ELSE Returned(tk, r)

\* A ReadFull that calls Read before it tests n < len.
ReadFullEnter_DoWhile(tk, b, buf, len) ==
  [tk EXCEPT !.pos = buf, !.len = len, !.n = 0, !.pc = "ReadFull"]

\* net.h:192-194: pos = buf, n = 0, and the first test of the loop.
ReadFullEnter(tk, b, buf, len) ==
  LET t1 == [tk EXCEPT !.pos = buf, !.len = len, !.n = 0]
  IN  IF t1.n < t1.len THEN [t1 EXCEPT !.pc = "ReadFull"]
      ELSE AfterReadFull(t1, b, ReadFullDone(t1.n, t1.len))

\* A ReadFull without the loop: it returns after its first Read.
ReadFullIter_Once(tk, b, ret, data) ==
  LET t0 == Seen(tk, ret)
      dst == Advance(t0.pos, t0.n)
      t1 == [t0 EXCEPT !.mem = StoreMem(@, dst, data), !.n = @ + Len(data),
                       !.moved = @ \o data]
  IN  <<AfterReadFull(t1, StoreBuf(b, dst, data), ret), StoreBuf(b, dst, data)>>

\* net.h:195-198: Read(pos + n, len - n) returned ret and stored data; then
\* the loop test again. The pair <<task record, buf_>> afterwards.
ReadFullIter(tk, b, ret, data) ==
  LET t0 == Seen(tk, ret)
  IN  IF ret <= 0 THEN <<AfterReadFull(t0, b, ReadFullFail(t0.n, ret)), b>>
      ELSE LET dst == Advance(t0.pos, t0.n)
               b1 == StoreBuf(b, dst, data)
               t1 == [t0 EXCEPT !.mem = StoreMem(@, dst, data), !.n = @ + ret,
                                !.moved = @ \o data]
           IN  IF t1.n < t1.len THEN <<t1, b1>>
               ELSE <<AfterReadFull(t1, b1, ReadFullDone(t1.n, t1.len)), b1>>

\* ----------------------------------------------------------- WriteFull
\* A WriteFull that reports the bytes written before the error.
WriteFullFail_Partial(n, ret) == IF n > 0 THEN n ELSE ret

\* net.h:210  if (ret < 0) return ret;
WriteFullFail(n, ret) == ret
\* net.h:214-215  assert(n == len); return n;
WriteFullDone(n, len) == n

\* net.h:206-208
WriteFullEnter(tk, buf, len) ==
  LET t1 == [tk EXCEPT !.pos = buf, !.len = len, !.n = 0]
  IN  IF t1.n < t1.len THEN [t1 EXCEPT !.pc = "WriteFull"]
      ELSE Returned(t1, WriteFullDone(t1.n, t1.len))

\* A WriteFull that calls Write again after an error.
WriteFullIter_Retry(tk, ret, data) ==
  LET t0 == Seen(tk, ret)
  IN  IF ret < 0 THEN t0
      ELSE LET t1 == [t0 EXCEPT !.n = @ + ret, !.moved = @ \o data,
                                !.stall = IF ret = 0 THEN @ + 1 ELSE @]
           IN  IF t1.n < t1.len THEN t1
               ELSE Returned(t1, WriteFullDone(t1.n, t1.len))

\* net.h:209-213 for a result that passes assert(ret > 0) or for which the
\* assertion is compiled out: Write(pos + n, len - n) returned ret.
WriteFullIter(tk, ret, data) ==
  LET t0 == Seen(tk, ret)
  IN  IF ret < 0 THEN Returned(t0, WriteFullFail(t0.n, ret))
      ELSE LET t1 == [t0 EXCEPT !.n = @ + ret, !.moved = @ \o data,
                                !.stall = IF ret = 0 THEN @ + 1 ELSE @]
           IN  IF t1.n < t1.len THEN t1
               ELSE Returned(t1, WriteFullDone(t1.n, t1.len))

\* ------------------------------------------- ReadvFullRaw, WritevFullRaw
\* The raw path keeps its own copy of the segment list and trims the copy:
\* segments the transfer has consumed are dropped and the first segment it
\* consumed in part loses its first k bytes.
\* A trim that drops the consumed segments and leaves the first remaining
\* segment whole.
RECURSIVE PullIOV_DropOnly(_, _)
PullIOV_DropOnly(iov, k) ==
  IF iov = << >> THEN << >>
  ELSE IF k >= Head(iov).iov_len
  THEN PullIOV_DropOnly(Tail(iov), k - Head(iov).iov_len)
  ELSE iov

RECURSIVE PullIOV(_, _)
PullIOV(iov, k) ==
  IF iov = << >> THEN << >>
  ELSE IF k >= Head(iov).iov_len THEN PullIOV(Tail(iov), k - Head(iov).iov_len)
  ELSE <<[Head(iov) EXCEPT !.iov_base = Advance(@, k), !.iov_len = @ - k]>>
         \o Tail(iov)

\* The transport's vectored calls: the first k bytes of the list iov, as
\* Writev takes them (LoadV) and as Readv stores data there (StoreV).
RECURSIVE LoadV(_, _, _, _)
LoadV(b, m, iov, k) ==
  IF k = 0 \/ iov = << >> THEN << >>
  ELSE LET h == Head(iov)
           j == IF h.iov_len < k THEN h.iov_len ELSE k
       IN  Load(b, m, h.iov_base, j) \o LoadV(b, m, Tail(iov), k - j)

RECURSIVE StoreV(_, _, _)
StoreV(m, iov, data) ==
  IF data = << >> \/ iov = << >> THEN m
  ELSE LET h == Head(iov)
           j == IF h.iov_len < Len(data) THEN h.iov_len ELSE Len(data)
       IN  StoreV(StoreMem(m, h.iov_base, SubSeq(data, 1, j)), Tail(iov),
                  SubSeq(data, j + 1, Len(data)))

\* The loop's test: the total is satisfied when nothing is left of the copy.
RawEnter(tk, pc) ==
  LET t1 == [tk EXCEPT !.cur = PullIOV(tk.iov, 0), !.len = TotalLen(tk.iov), !.n = 0]
  IN  IF t1.cur = << >> THEN Returned(t1, t1.len) ELSE [t1 EXCEPT !.pc = pc]

\* A raw loop that trims the list it was given, not a copy of it.
RawIter_TrimCaller(tk, ret, data) ==
  LET t1 == [Seen(tk, ret) EXCEPT !.n = @ + ret, !.moved = @ \o data,
                                  !.cur = PullIOV(@, ret),
                                  !.iov = PullIOV(tk.cur, ret)]
  IN  IF t1.cur = << >> THEN Returned(t1, t1.len) ELSE t1

\* One vectored call of the loop returned ret (> 0), moving data.
RawIter(tk, ret, data) ==
  LET t1 == [Seen(tk, ret) EXCEPT !.n = @ + ret, !.moved = @ \o data,
                                  !.cur = PullIOV(@, ret)]
  IN  IF t1.cur = << >> THEN Returned(t1, t1.len) ELSE t1

\* An end or error result (<= 0) ends the loop and is the call's result.
RawFail(tk, ret) == Returned(Seen(tk, ret), ret)

\* ------------------------------------------------- ReadvFull, WritevFull
\* A ReadvFull whose threshold test excludes kIOVCopyThresh itself.
ReadvFull_Below(tk, b, fixed) ==
  IF fixed /\ Len(tk.iov) = 1
  THEN <<ReadFullEnter([tk EXCEPT !.path = "single"], b,
                       tk.iov[1].iov_base, tk.iov[1].iov_len), b>>
  ELSE LET total_len == TotalLen(tk.iov)
       IN  IF fixed /\ total_len < kIOVCopyThresh
           THEN <<ReadFullEnter([tk EXCEPT !.path = "scratch"], b, Scratch,
                                total_len), b>>
           ELSE <<RawEnter([tk EXCEPT !.path = "raw"], "ReadvFullRaw"), b>>

\* A ReadvFull without the single-segment path of net.h:222-225.
ReadvFull_NoFastPath(tk, b, fixed) ==
  LET total_len == TotalLen(tk.iov)
  IN  IF fixed /\ total_len <= kIOVCopyThresh
      THEN <<ReadFullEnter([tk EXCEPT !.path = "scratch"], b, Scratch,
                           total_len), b>>
      ELSE <<RawEnter([tk EXCEPT !.path = "raw"], "ReadvFullRaw"), b>>

\* net.h:219-236. fixed: Extent != std::dynamic_extent. The pair
\* <<task record, buf_>> when the call blocks first or has returned.
ReadvFull(tk, b, fixed) ==
  IF fixed /\ Len(tk.iov) = 1
  THEN <<ReadFullEnter([tk EXCEPT !.path = "single"], b,
                       tk.iov[1].iov_base, tk.iov[1].iov_len), b>>
  ELSE LET total_len == TotalLen(tk.iov)
       IN  IF fixed /\ total_len <= kIOVCopyThresh
           THEN <<ReadFullEnter([tk EXCEPT !.path = "scratch"], b, Scratch,
                                total_len), b>>
           ELSE <<RawEnter([tk EXCEPT !.path = "raw"], "ReadvFullRaw"), b>>

\* A WritevFull that gathers before it tests the total against the
\* threshold.
WritevFull_GatherFirst(tk, b, fixed) ==
  IF fixed /\ Len(tk.iov) = 1
  THEN <<WriteFullEnter([tk EXCEPT !.path = "single"],
                        tk.iov[1].iov_base, tk.iov[1].iov_len), b>>
  ELSE LET total_len == TotalLen(tk.iov)
           b1 == gather_from(b, tk.mem, tk.iov)
       IN  IF fixed /\ total_len <= kIOVCopyThresh
           THEN <<WriteFullEnter([tk EXCEPT !.path = "scratch"], Scratch,
                                 total_len), b1>>
           ELSE <<RawEnter([tk EXCEPT !.path = "raw"], "WritevFullRaw"), b1>>

\* A WritevFull that writes the scratch buffer without gathering into it.
WritevFull_NoGather(tk, b, fixed) ==
  IF fixed /\ Len(tk.iov) = 1
  THEN <<WriteFullEnter([tk EXCEPT !.path = "single"],
                        tk.iov[1].iov_base, tk.iov[1].iov_len), b>>
  ELSE LET total_len == TotalLen(tk.iov)
       IN  IF fixed /\ total_len <= kIOVCopyThresh
           THEN <<WriteFullEnter([tk EXCEPT !.path = "scratch"], Scratch,
                                 total_len), b>>
           ELSE <<RawEnter([tk EXCEPT !.path = "raw"], "WritevFullRaw"), b>>

\* net.h:239-255
WritevFull(tk, b, fixed) ==
  IF fixed /\ Len(tk.iov) = 1
  THEN <<WriteFullEnter([tk EXCEPT !.path = "single"],
                        tk.iov[1].iov_base, tk.iov[1].iov_len), b>>
  ELSE LET total_len == TotalLen(tk.iov)
       IN  IF fixed /\ total_len <= kIOVCopyThresh
           THEN <<WriteFullEnter([tk EXCEPT !.path = "scratch"], Scratch,
                                 total_len), gather_from(b, tk.mem, tk.iov)>>
           ELSE <<RawEnter([tk EXCEPT !.path = "raw"], "WritevFullRaw"), b>>

\* The call op of a task whose record is tk: the user's ReadFull(buf, len)
\* and WriteFull(buf, len) on buffer 1, the span overloads, and the
\* (iovec *, int) overloads (net.h:258-267), which pass a dynamic span.
Enter(op, tk, b) ==
  CASE op = "ReadFull" ->
         <<ReadFullEnter([tk EXCEPT !.path = "scalar"], b,
                         tk.iov[1].iov_base, tk.iov[1].iov_len), b>>
    [] op = "WriteFull" ->
         <<WriteFullEnter([tk EXCEPT !.path = "scalar"],
                          tk.iov[1].iov_base, tk.iov[1].iov_len), b>>
    [] op = "ReadvFull" -> ReadvFull(tk, b, TRUE)
    [] op = "WritevFull" -> WritevFull(tk, b, TRUE)
    [] op = "ReadvFullDyn" -> ReadvFull(tk, b, FALSE)
    [] op = "WritevFullDyn" -> WritevFull(tk, b, FALSE)

\* -------------------------------------------------------------- harness
\* "single": task t1 alone issues one call of any kind on connection 1,
\*           whose peer is remote.
\* "large":  as "single", with totals around kIOVCopyThresh.
\* "series": as "single", MaxCalls calls one after the other.
\* "duplex": t1 reads and t2 writes the same connection 1 (remote peer),
\*           one vectored call each.
\* "loopback": t2 writes connection 1; when its call has returned the full
\*           length, t1 reads as many bytes from the other end,
\*           connection 2.
\* "twin":   t1 makes a vectored call with a fixed-size list on connection
\*           1; when it has returned the full length, t2 makes the same
\*           call through the (iovec *, int) overload on connection 2,
\*           whose remote peer sends the same bytes.
\* "pair":   t1 makes a vectored call with one segment on connection 1 and
\*           t2 the scalar call of that length on connection 2; the two
\*           transports then give the same results, call for call.
Harnesses == {"single", "large", "series", "duplex", "loopback", "twin", "pair"}

ConnOf(t) ==
  CASE harness = "loopback" -> IF t = "t1" THEN 2 ELSE 1
    [] harness \in {"twin", "pair"} -> IF t = "t2" THEN 2 ELSE 1
    [] OTHER -> 1

\* Task t reads what the model's writer wrote, not a remote peer's bytes.
FromWire(t) == harness = "loopback" /\ t = "t1"

Quota(t) ==
  CASE harness \in {"single", "large"} -> IF t = "t1" THEN 1 ELSE 0
    [] harness = "series" -> IF t = "t1" THEN MaxCalls ELSE 0
    [] OTHER -> 1

\* ReadFull and WriteFull take one buffer.
WithLists(ops, lists) ==
  {<<op, l>> : op \in ops,
               l \in lists} \ {<<op, l>> \in {"ReadFull", "WriteFull"} \X lists : Len(l) # 1}

LensOf(iov) == [i \in 1..Len(iov) |-> iov[i].iov_len]
Succeeded(tk) == tk.pc = "done" /\ tk.ret = TotalLen(tk.iov)

\* The calls <<op, lens>> task t may issue now.
CallsOf(t) ==
  CASE harness = "single" ->
         WithLists(ReadOps \cup WriteOps, SmallLists)
           \cup WithLists({"ReadFull", "WriteFull"}, LongLists)
    [] harness = "large" -> WithLists(ReadOps \cup WriteOps, BigLists)
    [] harness = "series" -> WithLists(ReadOps \cup WriteOps, SeriesLists)
    [] harness = "duplex" ->
         WithLists(IF t = "t1" THEN {"ReadvFull"} ELSE {"WritevFull"}, DuplexLists)
    [] harness = "loopback" ->
         IF t = "t2" THEN WithLists({"WritevFull"}, SmallLists \cup BigLists)
         ELSE IF Succeeded(task["t2"])
         THEN WithLists({"ReadvFull"}, {l \in SmallLists \cup BigLists :
                                         SumLens(l) = TotalLen(task["t2"].iov)})
         ELSE {}
    [] harness = "twin" ->
         IF t = "t1" THEN WithLists({"ReadvFull", "WritevFull"}, SmallLists)
         ELSE IF Succeeded(task["t1"])
         THEN {<<IF IsWrite(task["t1"].op) THEN "WritevFullDyn" ELSE "ReadvFullDyn",
                 LensOf(task["t1"].iov)>>}
         ELSE {}
    [] harness = "pair" ->
         IF t = "t1" THEN WithLists((ReadOps \cup WriteOps) \ {"ReadFull", "WriteFull"},
                                    PairLists)
         ELSE IF task["t1"].calls > 0
         THEN {<<IF IsWrite(task["t1"].op) THEN "WriteFull" ELSE "ReadFull",
                 LensOf(task["t1"].iov)>>}
         ELSE {}

\* ------------------------------------------------------------ transport
\* The sizes of a transfer of at most rem bytes.
Chunks(rem) == {k \in 1..rem : rem <= 2 * MaxChunk \/ rem - k <= MaxChunk}

\* The bytes the task's next transport call asks for.
Rem(tk) == IF tk.pc \in {"ReadFull", "WriteFull"} THEN tk.len - tk.n ELSE TotalLen(tk.cur)

\* __tcp_read / __tcp_readv asked for rem > 0 bytes: 1..rem bytes, at most
\* what has arrived, and when the connection fails a negative error or 0
\* (the peer closed and nothing is left to read). A remote peer has always
\* sent enough.
ReadResults(t, rem, faults) ==
  (IF faults THEN Errs ELSE {}) \cup
  (IF FromWire(t)
   THEN (IF wire = << >> THEN (IF faults THEN {0} ELSE {})
         ELSE Chunks(IF rem < Len(wire) THEN rem ELSE Len(wire)))
   ELSE (IF faults THEN {0} ELSE {}) \cup Chunks(rem))

\* __tcp_write / __tcp_writev asked for rem > 0 bytes: 1..rem bytes, and
\* when the connection fails a negative error or 0 (no progress).
WriteResults(t, rem, faults) ==
  Chunks(rem) \cup
  (IF faults
   THEN Errs \cup (IF task[t].stall < MaxStall THEN {0} ELSE {})
   ELSE {})

Results(t, faults) ==
  IF IsWrite(task[t].op) THEN WriteResults(t, Rem(task[t]), faults)
  ELSE ReadResults(t, Rem(task[t]), faults)

\* The ret bytes that arrive.
ReadData(t, ret) ==
  IF ret <= 0 THEN << >>
  ELSE IF FromWire(t) THEN SubSeq(wire, 1, ret)
  ELSE [j \in 1..ret |-> EnvByte(task[t].calls, Len(task[t].moved) + j - 1)]

\* assert(cond): whether a false assertion stops the process is the
\* build's choice (assertions are compiled out of a release build).
AssertStops(cond) == IF cond THEN {FALSE} ELSE {TRUE, FALSE}

\* net.h:211  assert(ret > 0), reached when ret >= 0; ReadFull asserts
\* nothing about ret.
Stops(tk, ret) == IF IsWrite(tk.op) THEN AssertStops(ret # 0) ELSE {FALSE}

\* ------------------------------------------------------ loop iterations
\* What one iteration leaves: the task's record, buf_, the bytes handed to
\* the transport, and whether the process stopped.
Out(tk, b, sent, stop) == [tk |-> tk, b |-> b, sent |-> sent, stop |-> stop]

Stopped(tk, b, ret) ==
  Out([Seen(tk, ret) EXCEPT !.pc = "abort"], b, << >>, TRUE)

\* ReadFull, net.h:195-198: Read(pos + n, len - n) returned ret.
ReadFullOut(tk, b, ret, data) ==
  LET r == ReadFullIter(tk, b, ret, data) IN Out(r[1], r[2], << >>, FALSE)

\* A WriteFull that passes pos, not pos + n, to Write.
WriteFullOut_NoOffset(tk, b, ret, stop) ==
  LET data == Load(b, tk.mem, tk.pos, IF ret > 0 THEN ret ELSE 0)
  IN  IF stop THEN Stopped(tk, b, ret)
      ELSE Out(WriteFullIter(tk, ret, data), b, data, FALSE)

\* WriteFull, net.h:209-213: Write(pos + n, len - n) returned ret.
WriteFullOut(tk, b, ret, stop) ==
  LET data == Load(b, tk.mem, Advance(tk.pos, tk.n), IF ret > 0 THEN ret ELSE 0)
  IN  IF stop THEN Stopped(tk, b, ret)
      ELSE Out(WriteFullIter(tk, ret, data), b, data, FALSE)

\* ReadvFullRaw: Readv over the trimmed list returned ret.
ReadvFullRawOut(tk, b, ret, data) ==
  Out(IF ret <= 0 THEN RawFail(tk, ret)
      ELSE RawIter([tk EXCEPT !.mem = StoreV(@, tk.cur, data)], ret, data),
      b, << >>, FALSE)

\* WritevFullRaw: Writev over the trimmed list returned ret; no progress
\* fails an assertion, as in WriteFull.
WritevFullRawOut(tk, b, ret, stop) ==
  LET data == LoadV(b, tk.mem, tk.cur, IF ret > 0 THEN ret ELSE 0)
  IN  IF stop THEN Stopped(tk, b, ret)
      ELSE IF ret < 0 THEN Out(RawFail(tk, ret), b, << >>, FALSE)
      ELSE Out(RawIter([tk EXCEPT !.stall = IF ret = 0 THEN @ + 1 ELSE @], ret, data),
               b, data, FALSE)

Iter(tk, b, ret, data, stop) ==
  CASE tk.pc = "ReadFull" -> ReadFullOut(tk, b, ret, data)
    [] tk.pc = "WriteFull" -> WriteFullOut(tk, b, ret, stop)
    [] tk.pc = "ReadvFullRaw" -> ReadvFullRawOut(tk, b, ret, data)
    [] tk.pc = "WritevFullRaw" -> WritevFullRawOut(tk, b, ret, stop)

Loops == {"ReadFull", "WriteFull", "ReadvFullRaw", "WritevFullRaw"}

\* -------------------------------------------------------------- actions
\* Task t calls op with a segment list; the call runs to its first
\* transport call, or returns.
Call(t) ==
  /\ ~aborted
  /\ task[t].pc = "idle"
  /\ task[t].calls < Quota(t)
  /\ \E call \in CallsOf(t) :
       LET c == ConnOf(t)
           r == Enter(call[1], Fresh(call[1], task[t].calls + 1, call[2]), buf_[c])
       IN  /\ task' = [task EXCEPT ![t] = r[1]]
           /\ buf_' = [buf_ EXCEPT ![c] = r[2]]
  /\ UNCHANGED <<harness, wire, aborted>>

\* The caller has the result of a successful call and goes on to its next
\* call: the buffers and the list of the call are gone. (After an end or
\* error result the connection is of no more use.)
Finish(t) ==
  /\ ~aborted
  /\ Succeeded(task[t])
  /\ task[t].calls < Quota(t)
  /\ task' = [task EXCEPT ![t] = [Idle EXCEPT !.calls = task[t].calls]]
  /\ UNCHANGED <<harness, buf_, wire, aborted>>

\* Task t's transport call returns and t runs to its next transport call.
Step(t, faults) ==
  /\ ~aborted
  /\ harness # "pair"
  /\ \E ret \in Results(t, faults) : \E stop \in Stops(task[t], ret) :
       LET c == ConnOf(t)
           o == Iter(task[t], buf_[c], ret, ReadData(t, ret), stop)
       IN  /\ task' = [task EXCEPT ![t] = o.tk]
           /\ buf_' = [buf_ EXCEPT ![c] = o.b]
           /\ wire' = IF FromWire(t)
                      THEN SubSeq(wire, Len(ReadData(t, ret)) + 1, Len(wire))
                      ELSE IF harness \in {"loopback", "series"} THEN wire \o o.sent
                      ELSE wire
           /\ aborted' = o.stop
  /\ UNCHANGED harness

\* One iteration of each loop, with every result of the transport.
ReadFullStep(t) ==
  /\ task[t].pc = "ReadFull"
  /\ Step(t, TRUE)

WriteFullStep(t) ==
  /\ task[t].pc = "WriteFull"
  /\ Step(t, TRUE)

ReadvFullRawStep(t) ==
  /\ task[t].pc = "ReadvFullRaw"
  /\ Step(t, TRUE)

WritevFullRawStep(t) ==
  /\ task[t].pc = "WritevFullRaw"
  /\ Step(t, TRUE)

\* The "pair" harness: both tasks' transport calls return the same result.
PairStep ==
  /\ ~aborted
  /\ harness = "pair"
  /\ task["t1"].pc \in Loops /\ task["t2"].pc \in Loops
  /\ \E ret \in Results("t1", TRUE) \cap Results("t2", TRUE) :
     \E stop \in Stops(task["t1"], ret) :
       LET o1 == Iter(task["t1"], buf_[1], ret, ReadData("t1", ret), stop)
           o2 == Iter(task["t2"], buf_[2], ret, ReadData("t2", ret), stop)
       IN  /\ task' = [task EXCEPT !["t1"] = o1.tk, !["t2"] = o2.tk]
           /\ buf_' = [buf_ EXCEPT ![1] = o1.b, ![2] = o2.b]
           /\ aborted' = (o1.stop \/ o2.stop)
  /\ UNCHANGED <<harness, wire>>

\* -------------------------------------------------------- specification
\* After construction: buf_ holds whatever the storage held, nothing is in
\* flight and no task has called anything.
Init ==
  /\ harness \in Harnesses
  /\ \E j \in JunkBytes : buf_ = [c \in Conns |-> Fill(kIOVCopyThresh, j)]
  /\ wire = << >>
  /\ task = [t \in Tasks |-> Idle]
  /\ aborted = FALSE

Next ==
  \/ \E t \in Tasks :
       \/ Call(t)
       \/ Finish(t)
       \/ ReadFullStep(t)
       \/ WriteFullStep(t)
       \/ ReadvFullRawStep(t)
       \/ WritevFullRawStep(t)
  \/ PairStep

Spec == Init /\ [][Next]_vars

\* The transport never fails, never ends the stream and always makes
\* progress, but may move fewer bytes than asked for.
ReadFullProgress(t) ==
  /\ task[t].pc = "ReadFull"
  /\ Step(t, FALSE)

WriteFullProgress(t) ==
  /\ task[t].pc = "WriteFull"
  /\ Step(t, FALSE)

ReadvFullRawProgress(t) ==
  /\ task[t].pc = "ReadvFullRaw"
  /\ Step(t, FALSE)

WritevFullRawProgress(t) ==
  /\ task[t].pc = "WritevFullRaw"
  /\ Step(t, FALSE)

Progress(t) ==
  \/ ReadFullProgress(t)
  \/ WriteFullProgress(t)
  \/ ReadvFullRawProgress(t)
  \/ WritevFullRawProgress(t)

FairInit == Init /\ harness = "single"

FairNext == \E t \in Tasks : Call(t) \/ Progress(t)

\* A transport call that can return does return, and the task goes on.
FairSpec == FairInit /\ [][FairNext]_vars /\ \A t \in Tasks : WF_vars(Progress(t))

\* ------------------------------------------------- scatter and gather
\* gather_from and scatter_to on their own: the segments of t1 are gathered
\* into buf_ of connection 1, that buffer is scattered over the blank
\* segments of t2, of the same shape, and these are gathered into buf_ of
\* connection 2.
CopyLists == SmallLists \cup {l \in BigLists : SumLens(l) <= kIOVCopyThresh}

CopyInit ==
  /\ harness = "copy"
  /\ \E j \in JunkBytes : buf_ = [c \in Conns |-> Fill(kIOVCopyThresh, j)]
  /\ wire = << >>
  /\ \E lens \in CopyLists :
       task = [t \in Tasks |->
                 [Fresh(IF t = "t1" THEN "WritevFull" ELSE "ReadvFull", 1, lens)
                    EXCEPT !.pc = "ready"]]
  /\ aborted = FALSE

\* net.h:250  detail::gather_from(buf_, iov)
CopyGather ==
  /\ task["t1"].pc = "ready"
  /\ buf_' = [buf_ EXCEPT ![1] = gather_from(@, task["t1"].mem, task["t1"].iov)]
  /\ task' = [task EXCEPT !["t1"].pc = "gathered"]
  /\ UNCHANGED <<harness, wire, aborted>>

\* net.h:231  detail::scatter_to(buf_, iov)
CopyScatter ==
  /\ task["t1"].pc = "gathered" /\ task["t2"].pc = "ready"
  /\ task' = [task EXCEPT !["t2"].mem = scatter_to(buf_[1], @, task["t2"].iov),
                          !["t2"].pc = "scattered"]
  /\ UNCHANGED <<harness, buf_, wire, aborted>>

CopyRegather ==
  /\ task["t2"].pc = "scattered"
  /\ buf_' = [buf_ EXCEPT ![2] = gather_from(@, task["t2"].mem, task["t2"].iov)]
  /\ task' = [task EXCEPT !["t2"].pc = "regathered"]
  /\ UNCHANGED <<harness, wire, aborted>>

CopyNext == CopyGather \/ CopyScatter \/ CopyRegather

CopySpec == CopyInit /\ [][CopyNext]_vars

\* =============================================================== claims
Done(t) == task[t].pc = "done"
Total(t) == TotalLen(task[t].iov)

\* C1: a full-transfer call (ReadFull, WriteFull, ReadvFull, WritevFull)
\* returns the requested length (the sum of the segment lengths) or a value
\* <= 0, never a positive value below the requested length, whatever the
\* transport's partial results.
C1_ExactOrFail ==
  \A t \in Tasks : Done(t) => (task[t].ret = Total(t) \/ task[t].ret <= 0)

\* A WriteFull that failed after it had written part of its buffer.
C1_Witness ==
  \E t \in Tasks :
    /\ Done(t) /\ task[t].op = "WriteFull"
    /\ task[t].last < 0 /\ task[t].ret < 0
    /\ task[t].moved # << >>

\* C2: when the transport never fails, never ends the stream and always
\* moves at least one byte, ReadFull and WriteFull of any length terminate
\* and return the requested length, however short each transfer is.
C2_Terminates ==
  \A t \in Tasks :
    (task[t].pc \in {"ReadFull", "WriteFull"})
      ~> (Done(t) /\ task[t].ret = task[t].len)

\* A ReadFull of 2 * MaxChunk bytes that returned all of them.
C2_Witness ==
  \E t \in Tasks :
    /\ Done(t) /\ task[t].op = "ReadFull"
    /\ task[t].len = 2 * MaxChunk /\ task[t].ret = task[t].len

\* C3: when the stream ends (Read returns 0) after ReadFull has received
\* some but not all of the bytes, ReadFull returns 0, not the partial count.
C3_EofSentinel ==
  \A t \in Tasks :
    (/\ Done(t) /\ task[t].op = "ReadFull"
     /\ task[t].last = 0 /\ task[t].moved # << >>) => task[t].ret = 0

\* A ReadFull of 2 bytes that met the end of the stream after 1.
C3_Witness ==
  \E t \in Tasks :
    /\ Done(t) /\ task[t].op = "ReadFull"
    /\ task[t].last = 0 /\ Len(task[t].moved) = 1 /\ task[t].len = 2
    /\ task[t].ret = 0

C5_PathsAgree ==
  (/\ harness = "twin"
   /\ Succeeded(task["t1"]) /\ Succeeded(task["t2"])
   /\ task["t1"].path = "scratch")
    => /\ task["t2"].path = "raw"
       /\ task["t1"].ret = task["t2"].ret
       /\ task["t1"].moved = task["t2"].moved
       /\ task["t1"].mem = task["t2"].mem

\* A read of 1 + 2 bytes through the scratch buffer and through the raw path.
C5_Witness ==
  /\ harness = "twin"
  /\ Succeeded(task["t1"]) /\ Succeeded(task["t2"])
  /\ task["t1"].op = "ReadvFull" /\ task["t1"].path = "scratch"
  /\ task["t2"].op = "ReadvFullDyn" /\ task["t2"].path = "raw"
  /\ LensOf(task["t1"].iov) = <<1, 2>>
  /\ task["t2"].mem = <<<<5>>, <<6, 4>>>>

\* C6: a ReadvFull / WritevFull over one segment (fixed-size span or
\* pointer and count) behaves as ReadFull / WriteFull on that segment: the
\* same transfers, the same result, the same buffer contents.
C6_OneSegment ==
  (harness = "pair" /\ task["t2"].calls = 1) =>
    LET v == task["t1"]
        s == task["t2"]
    IN  /\ (v.pc \in Loops) = (s.pc \in Loops)
        /\ (v.pc = "done") = (s.pc = "done")
        /\ (v.pc = "abort") = (s.pc = "abort")
        /\ v.ret = s.ret /\ v.n = s.n
        /\ v.io = s.io /\ v.last = s.last
        /\ v.moved = s.moved
        /\ v.mem = s.mem

\* A one-segment ReadvFull of 2 bytes and the ReadFull beside it, both
\* failed after 1 byte.
C6_Witness ==
  /\ harness = "pair"
  /\ Done("t1") /\ Done("t2")
  /\ task["t1"].op = "ReadvFull" /\ task["t2"].op = "ReadFull"
  /\ task["t1"].ret < 0 /\ task["t2"].ret = task["t1"].ret
  /\ task["t1"].mem = <<<<5, 0>>>>

\* C7: when one task is in ReadvFull and another in WritevFull on the same
\* connection, switching where Read or Write blocks, the reader's segments
\* get exactly the bytes taken from the inbound stream and the outbound
\* stream gets exactly the writer's segments in order.
C7_Duplex ==
  harness = "duplex" =>
    /\ Succeeded(task["t1"]) => Flatten(task["t1"].mem) = task["t1"].moved
    /\ Succeeded(task["t2"]) => task["t2"].moved = Flatten(task["t2"].mem)

\* C8: when Write returns 0 to WriteFull with bytes left to write, the call
\* stops at the failed assertion: it neither returns nor calls Write again.
C8_ZeroIsFatal ==
  \A t \in Tasks :
    (task[t].op = "WriteFull" /\ task[t].io /\ task[t].last = 0)
      => task[t].pc = "abort"

\* C9: buf_ is read or written only by a vectored call over a fixed-size
\* list of more than one segment and of total length <= kIOVCopyThresh;
\* every other call leaves buf_ as it is.
C9_ScratchFrame ==
  [][/\ \A c \in Conns :
          buf_'[c] # buf_[c] =>
            \E t \in Tasks :
              /\ ConnOf(t) = c /\ task'[t] # task[t]
              /\ task'[t].path = "scratch"
              /\ task'[t].op \in {"ReadvFull", "WritevFull"}
              /\ Len(task'[t].iov) # 1
              /\ TotalLen(task'[t].iov) <= kIOVCopyThresh
     /\ \A t \in Tasks :
          (task[t].pc \in {"ReadFull", "WriteFull"} /\ task[t].pos.seg = 0) =>
            /\ task[t].path = "scratch"
            /\ TotalLen(task[t].iov) <= kIOVCopyThresh]_vars

\* A WritevFull of more than kIOVCopyThresh bytes in two segments has
\* returned and buf_ is as the constructor left it.
C9_Witness ==
  \E t \in Tasks :
    /\ Succeeded(task[t]) /\ task[t].op = "WritevFull"
    /\ Len(task[t].iov) = 2 /\ Total(t) = kIOVCopyThresh + 1
    /\ \E j \in JunkBytes : buf_[ConnOf(t)] = Fill(kIOVCopyThresh, j)

\* C10: a ReadvFull / WritevFull call leaves the caller's segment list as
\* it was passed in, on every path and for every outcome: segment i still
\* starts at the start of the caller's i-th buffer and has its length.
C10_ListIntact ==
  \A t \in Tasks :
    /\ Len(task[t].iov) = Len(task[t].mem)
    /\ \A i \in 1..Len(task[t].iov) :
         task[t].iov[i] = IoVec(i, 0, Len(task[t].mem[i]))

\* A raw read that has dropped a segment of its own list and trimmed the
\* next one.
C10_Witness ==
  \E t \in Tasks :
    /\ task[t].pc = "ReadvFullRaw"
    /\ Len(task[t].iov) = 3 /\ Len(task[t].cur) = 2
    /\ task[t].cur[1].iov_base.off = 1

\* C11: when Read or Write returns a negative value in any iteration of
\* ReadFull / WriteFull, called by the user or by ReadvFull / WritevFull on
\* the single-segment or scratch path, the call returns that value
\* unchanged and makes no further transport call; the bytes moved before
\* are not reported.
C11_ErrorPropagates ==
  \A t \in Tasks :
    (/\ task[t].path \in {"scalar", "single", "scratch"}
     /\ task[t].io /\ task[t].last < 0)
      => Done(t) /\ task[t].ret = task[t].last

\* A ReadvFull on the scratch path returned -ECONNRESET after 1 byte.
C11_Witness ==
  \E t \in Tasks :
    /\ Done(t) /\ task[t].op = "ReadvFull" /\ task[t].path = "scratch"
    /\ task[t].last = -104 /\ task[t].ret = -104
    /\ Len(task[t].moved) = 1

Vectored(t) == task[t].op \in {"ReadvFull", "WritevFull", "ReadvFullDyn", "WritevFullDyn"}
FixedSize(t) == task[t].op \in {"ReadvFull", "WritevFull"}

\* C12 as stated: a list of exactly one entry goes to ReadFull / WriteFull
\* directly; a fixed-size list of two or more segments of total length
\* <= kIOVCopyThresh goes through the scratch buffer; every other call
\* takes the raw path.
C12_AsStated ==
  \A t \in Tasks :
    Vectored(t) =>
      task[t].path = IF Len(task[t].iov) = 1 THEN "single"
                     ELSE IF /\ FixedSize(t) /\ Len(task[t].iov) >= 2
                             /\ Total(t) <= kIOVCopyThresh
                     THEN "scratch"
                     ELSE "raw"

\* C12, amended: a fixed-size list of exactly one entry goes to ReadFull /
\* WriteFull on that segment directly, whatever its length; a fixed-size
\* list of any other number of segments (none included) of total length
\* <= kIOVCopyThresh goes through the scratch buffer with one ReadFull /
\* WriteFull of the total; every other call, a list of one entry passed
\* as pointer and count included, takes the raw path.
C12_PathSelection ==
  \A t \in Tasks :
    Vectored(t) =>
      /\ task[t].path = IF FixedSize(t) /\ Len(task[t].iov) = 1 THEN "single"
                        ELSE IF FixedSize(t) /\ Total(t) <= kIOVCopyThresh
                        THEN "scratch"
                        ELSE "raw"
      /\ task[t].path = "single" =>
           /\ task[t].pos = task[t].iov[1].iov_base
           /\ task[t].len = task[t].iov[1].iov_len
      /\ task[t].path = "scratch" =>
           /\ task[t].pos = Scratch
           /\ task[t].len = Total(t)
      /\ task[t].path = "raw" => task[t].pc \notin {"ReadFull", "WriteFull"}

\* A one-entry list passed as pointer and count went down the raw path.
C12_Witness ==
  \E t \in Tasks :
    /\ Succeeded(task[t])
    /\ task[t].op = "ReadvFullDyn" /\ Len(task[t].iov) = 1
    /\ task[t].ret = MaxSegLen /\ task[t].path = "raw"

\* C13: in ReadFull / WriteFull every transport call is made at offset n of
\* the buffer for len - n bytes, n being the sum of the earlier positive
\* results: 0 <= n <= len always, and the bytes moved so far are the first
\* n bytes of the buffer, in order, none twice and none skipped.
C13_OffsetAdvances ==
  \A t \in Tasks :
    (/\ harness # "duplex"
     /\ task[t].path \in {"scalar", "single", "scratch"}
     /\ task[t].pc \in {"ReadFull", "WriteFull", "done", "abort"})
      => /\ 0 <= task[t].n /\ task[t].n <= task[t].len
         /\ Len(task[t].moved) = task[t].n
         /\ Load(buf_[ConnOf(t)], task[t].mem, task[t].pos, task[t].n)
              = task[t].moved
         /\ task[t].pc \in {"ReadFull", "WriteFull"} =>
              /\ task[t].n < task[t].len
              /\ Rem(task[t]) = task[t].len - task[t].n

\* A WriteFull of 2 * MaxChunk bytes in the middle of its buffer.
C13_Witness ==
  \E t \in Tasks :
    /\ task[t].op = "WriteFull" /\ task[t].pc = "WriteFull"
    /\ task[t].len = 2 * MaxChunk /\ task[t].n = MaxChunk + 1
    /\ task[t].moved = SubSeq(task[t].mem[1], 1, MaxChunk + 1)

\* C14: on the raw path, after a vectored call that moved only part of the
\* remaining bytes the next call is made over the list without the
\* segments already consumed and with the first segment consumed in part
\* starting after the consumed bytes; the loop goes on until the total is
\* reached or an end / error result comes. Whatever the partial results,
\* every stream byte is at the segment position a single complete
\* transfer gives it, and a successful call returns the total.
C14_RawTrim ==
  \A t \in Tasks :
    (task[t].path = "raw" /\ task[t].pc \in {"ReadvFullRaw", "WritevFullRaw", "done", "abort"})
      => LET tk == task[t]
             d == Len(tk.iov) - Len(tk.cur)
         IN  /\ tk.len = Total(t)
             /\ 0 <= tk.n /\ tk.n <= tk.len /\ Len(tk.moved) = tk.n
             /\ SubSeq(Flatten(tk.mem), 1, tk.n) = tk.moved
             /\ tk.pc \in {"ReadvFullRaw", "WritevFullRaw"} =>
                  /\ tk.cur # << >> /\ d >= 0
                  /\ TotalLen(tk.cur) = tk.len - tk.n
                  /\ tk.cur[1].iov_len > 0
                  /\ tk.cur[1].iov_base.seg = d + 1
                  /\ tk.cur[1].iov_base.off + tk.cur[1].iov_len = tk.iov[d + 1].iov_len
                  /\ \A j \in 2..Len(tk.cur) : tk.cur[j] = tk.iov[d + j]
             /\ (tk.pc = "done" /\ (~tk.io \/ tk.last > 0)) =>
                  tk.ret = tk.len /\ tk.n = tk.len

\* A raw write of 2 + 2 + 2 bytes whose first Writev took 3: the next one
\* is made over the second byte of segment 2 and segment 3.
C14_Witness ==
  \E t \in Tasks :
    /\ task[t].pc = "WritevFullRaw" /\ task[t].op = "WritevFullDyn"
    /\ LensOf(task[t].iov) = <<2, 2, 2>>
    /\ task[t].moved = <<2, 3, 1>>
    /\ task[t].cur = <<IoVec(2, 1, 1), IoVec(3, 0, 2)>>

\* offset_i: the lengths of the segments before segment i, summed.
OffsetOf(iov, i) == TotalLen(SubSeq(iov, 1, i - 1))

\* The bytes of b after the first k are as nobody has written them.
RestUntouched(b, k) == \A x \in (k + 1)..Len(b) : b[x] \in JunkBytes

\* C15: scatter copies, for each segment i in list order, the scratch range
\* [offset_i, offset_i + len_i) into segment i, offset_i being the sum of
\* the earlier lengths; gather is the inverse; both move exactly the sum of
\* the lengths; scatter after gather over the same shape restores every
\* segment, segments of length 0 included.
C15_ScatterGather ==
  LET w == task["t1"]
      r == task["t2"]
      total == TotalLen(w.iov)
  IN  /\ w.pc = "gathered" =>
           /\ \A i \in 1..Len(w.iov) :
                SubSeq(buf_[1], OffsetOf(w.iov, i) + 1,
                       OffsetOf(w.iov, i) + w.iov[i].iov_len) = w.mem[i]
           /\ RestUntouched(buf_[1], total)
      /\ r.pc \in {"scattered", "regathered"} =>
           /\ \A i \in 1..Len(r.iov) :
                r.mem[i] = SubSeq(buf_[1], OffsetOf(r.iov, i) + 1,
                                  OffsetOf(r.iov, i) + r.iov[i].iov_len)
           /\ r.mem = w.mem
      /\ r.pc = "regathered" =>
           /\ SubSeq(buf_[2], 1, total) = SubSeq(buf_[1], 1, total)
           /\ RestUntouched(buf_[2], total)

\* Segments of 2, 0 and 1 bytes gathered, scattered and gathered again.
C15_Witness ==
  /\ task["t2"].pc = "regathered"
  /\ LensOf(task["t2"].iov) = <<2, 0, 1>>
  /\ task["t2"].mem = <<<<2, 3>>, << >>, <<1>>>>
  /\ SubSeq(buf_[2], 1, 3) = <<2, 3, 1>>

\* The bytes of the segments of a writer's k-th call, of total length n,
\* in list order.
Payload(k, n) == [p \in 1..n |-> PayByte(k, p - 1)]

\* The streams k successful calls of the "series" harness can have handed
\* to the transport: call after call, each write call's segments in list
\* order (a read call hands over nothing).
RECURSIVE Streams(_)
Streams(k) ==
  IF k = 0 THEN {<< >>}
  ELSE {s \o Payload(k, n) : s \in Streams(k - 1),
                             n \in {SumLens(l) : l \in SeriesLists}}

\* C16: over a sequence of successful WriteFull / WritevFull calls of one
\* task on one connection, on whichever paths, the stream handed to the
\* transport is the calls' segments, call after call and in list order
\* within a call: no byte twice, none missing, none out of order.
C16_StreamOrder ==
  harness = "series" =>
    LET tk == task["t1"]
    IN  /\ tk.pc = "idle" => wire \in Streams(tk.calls)
        /\ (tk.pc # "idle" /\ ~IsWrite(tk.op)) => wire \in Streams(tk.calls - 1)
        /\ (tk.pc # "idle" /\ IsWrite(tk.op)) =>
             /\ Len(wire) >= Len(tk.moved)
             /\ SubSeq(wire, 1, Len(wire) - Len(tk.moved)) \in Streams(tk.calls - 1)
             /\ SubSeq(wire, Len(wire) - Len(tk.moved) + 1, Len(wire)) = tk.moved
             /\ tk.moved = SubSeq(Flatten(tk.mem), 1, Len(tk.moved))
             /\ Succeeded(tk) => tk.moved = Flatten(tk.mem)

\* A WriteFull of 2 bytes, then a WritevFull of 2 + 2 bytes through the
\* scratch buffer.
C16_Witness ==
  /\ harness = "series"
  /\ Succeeded(task["t1"]) /\ task["t1"].calls = 2
  /\ task["t1"].op = "WritevFull" /\ task["t1"].path = "scratch"
  /\ task["t1"].mem = <<<<3, 1>>, <<2, 3>>>>
  /\ wire = <<2, 3, 3, 1, 2, 3>>

\* The values of the sequence s.
Range(s) == {s[x] : x \in 1..Len(s)}

\* C17: when a ReadvFull through the scratch buffer returns a value <= 0,
\* every byte of the caller's segments is afterwards what it was before
\* the call (0 here) or a byte this call read from the stream; nothing an
\* earlier call left in the scratch buffer gets into the segments.
C17_NoStaleBytes ==
  \A t \in Tasks :
    (/\ harness \in {"single", "series"}
     /\ Done(t) /\ task[t].op = "ReadvFull" /\ task[t].path = "scratch"
     /\ task[t].ret <= 0)
      => Range(Flatten(task[t].mem)) \subseteq {0} \cup Range(task[t].moved)

\* C18: a full transfer of length 0 (ReadFull / WriteFull with len = 0, a
\* fixed-size vectored call whose segments all have length 0) returns 0
\* and makes no transport call, so whatever the state of the connection;
\* for a read the value is the one that also reports the end of the stream.
C18_ZeroLength ==
  \A t \in Tasks :
    (/\ task[t].op \in {"ReadFull", "WriteFull", "ReadvFull", "WritevFull"}
     /\ Total(t) = 0)
      => /\ Done(t) /\ task[t].ret = 0
         /\ ~task[t].io /\ task[t].moved = << >>
         /\ task[t].stall = 0

\* A fixed-size ReadvFull over two segments of length 0 has returned.
C18_Witness ==
  \E t \in Tasks :
    /\ Done(t) /\ task[t].op = "ReadvFull"
    /\ LensOf(task[t].iov) = <<0, 0>>
    /\ task[t].path = "scratch"
    /\ task[t].ret = 0 /\ ~task[t].io

====
